---- MODULE Spec2Model ----
(***************************************************************************)
(* Model of campusenergy.py: the batch pipeline that ingests per-building  *)
(* meter CSV files, merges them into one timestamp-indexed dataset,        *)
(* aggregates it (daily, weekly, per building), groups it into Building    *)
(* objects and writes an executive summary.                                *)
(*                                                                         *)
(* Representation.                                                         *)
(*  - Text is a sequence of one-character strings: "A_B" is                *)
(*    <<"A","_","B">>.  A file name ends with the token ".csv" (the glob   *)
(*    pattern of line 18 guarantees the suffix).                           *)
(*  - A timestamp cell is the text of a January 2024 date and hour,        *)
(*    <<day, hour>>: <<1, 12>> is "2024-01-01T12:00".  pd.to_datetime turns *)
(*    it into a point in time, here the number of hours since              *)
(*    2024-01-01T00:00 (a Monday).  <<0, 0>> is a text to_datetime rejects. *)
(*  - An empty cell of a CSV is read by pandas as NaN.                     *)
(*  - kwh cells are integers (read_csv infers int64), so sums are exact.   *)
(*    Every file has the "kwh" column, which the program assumes.          *)
(*  - A file is the table read_csv returns for it (header and rows).       *)
(***************************************************************************)
EXTENDS Integers, Sequences, FiniteSets, Bags, TLC

\* ------------------------------------------------------------------ bounds
\* Rows of one file.
MaxRows == 2
\* add_reading calls on one Building (specification SpecBuilding).
MaxReadings == 3

\* ------------------------------------------------------- program constants
HoursPerDay == 24
DaysPerWeek == 7

NaN == <<"NaN">>

\* ------------------------------------------------------------------ inputs
\* The names of the *.csv files the data directory can hold.
FileNames == { <<"A", "_", "B", ".csv">>, <<"B", ".csv">> }

\* The rows files are made of: two rows with the same timestamp, two rows of
\* the same day, a row of the following week, a row whose building cell is
\* empty, a row whose timestamp cannot be parsed.
RowPool ==
    { [timestamp |-> <<1, 0>>,  kwh |-> 1, building |-> <<"A">>],
      [timestamp |-> <<1, 0>>,  kwh |-> 2, building |-> <<"B">>],
      [timestamp |-> <<1, 12>>, kwh |-> 2, building |-> <<"A">>],
      [timestamp |-> <<8, 0>>,  kwh |-> 1, building |-> NaN],
      [timestamp |-> <<0, 0>>,  kwh |-> 1, building |-> <<"A">>] }

OptionalColumns == {"timestamp", "building"}

\* The row of the pool restricted to the columns a file has.
Project(r, cols) == [c \in cols |-> r[c]]

SeqsUpTo(S, n) == UNION { [1..k -> S] : k \in 0..n }

\* A file of the data directory: its name, whether it can still be opened
\* when it is read, its header and its rows.
ReadableFiles(cols) ==
    { [name |-> n, readable |-> TRUE, columns |-> cols, rows |-> rs] :
        n \in FileNames,
        rs \in SeqsUpTo({Project(r, cols) : r \in RowPool}, MaxRows) }

Files ==
    UNION { ReadableFiles({"kwh"} \cup o) : o \in SUBSET OptionalColumns }
    \cup
    { [name |-> n, readable |-> FALSE, columns |-> {"kwh"}, rows |-> <<>>] :
        n \in FileNames }

VARIABLES
    files,          \* the files the glob has yielded so far, in discovery order
    df_combined,    \* the accumulating, then merged, dataset
    log,            \* the lines logged by the ingestion loop
    pc,             \* position of the script
    daily_totals, weekly_totals, summary,   \* Task 2
    manager,        \* Task 3: BuildingManager.buildings
    report,         \* Task 5: the executive summary
    error,          \* the exception that ended the run, "none" if none did
    building,       \* a Building object used on its own (SpecBuilding)
    added,          \* the readings handed to add_reading of that Building
    ret             \* what the last call on that Building returned

vars == <<files, df_combined, log, pc, daily_totals, weekly_totals, summary,
          manager, report, error, building, added, ret>>

pipeVars == <<files, df_combined, log, pc, daily_totals, weekly_totals,
              summary, manager, report, error>>
objVars == <<building, added, ret>>

\* ------------------------------------------------------------ Task 1: read
\* Path.stem: the name without its last suffix.
Stem(name) == SubSeq(name, 1, Len(name) - 1)

\* s.split("_")[0]: the text before the first underscore, all of it if none.
RECURSIVE SplitFirst(_)
SplitFirst(s) ==
    IF s = <<>> \/ Head(s) = "_" THEN <<>>
    ELSE <<Head(s)>> \o SplitFirst(Tail(s))

\* Mutant: the whole stem is taken as the building, the split is forgotten.
BuildingName_WholeStem(file) == Stem(file.name)

BuildingName(file) == SplitFirst(Stem(file.name))

\* pd.to_datetime of one cell: defined for the texts that are a date.
Parseable(cell) == cell[1] \in 1..31 /\ cell[2] \in 0..(HoursPerDay - 1)
ToDatetime(cell) == (cell[1] - 1) * HoursPerDay + cell[2]

\* df["building"] = df.get("building", building_name)
WithBuilding(file, r) ==
    IF "building" \in file.columns THEN r.building ELSE BuildingName(file)

\* The frame of one file after lines 20-27, for a file that passes them.
Frame(file) ==
    [columns |-> {"timestamp", "kwh", "building"}, index |-> "RangeIndex",
     rows |-> [i \in 1..Len(file.rows) |->
                 [timestamp |-> ToDatetime(file.rows[i].timestamp),
                  kwh |-> file.rows[i].kwh,
                  building |-> WithBuilding(file, file.rows[i])]]]

\* pd.concat([df_combined, df], ignore_index=True)
Concat(dfc, df) ==
    [columns |-> dfc.columns \cup df.columns, index |-> "RangeIndex",
     rows |-> dfc.rows \o df.rows]

\* What the try block of lines 19-32 does on one file: "ok", or the
\* exception it raises.
Outcome(file) ==
    IF ~file.readable THEN "FileNotFoundError"
    ELSE IF "timestamp" \notin file.columns
         THEN "ValueError: Timestamp missing in file!"
    ELSE IF \E i \in 1..Len(file.rows) : ~Parseable(file.rows[i].timestamp)
         THEN "DateParseError"
    ELSE "ok"

\* Mutant: the rows are appended to the dataset as they are parsed, so the
\* rows before an unparseable timestamp stay in it.
IngestFile_LeaksParsedRows(dfc, file) ==
    LET o == Outcome(file)
        parsed == [columns |-> file.columns, name |-> file.name,
                   readable |-> TRUE,
                   rows |-> SelectSeq(file.rows,
                                      LAMBDA r : Parseable(r.timestamp))]
    IN
    IF o = "ok"
      THEN [df |-> Concat(dfc, Frame(file)), raised |-> "none",
            line |-> [level |-> "INFO", msg |-> "Loaded", file |-> file.name,
                      reason |-> "none"]]
    ELSE IF o = "FileNotFoundError"
      THEN [df |-> dfc, raised |-> "none",
            line |-> [level |-> "ERROR", msg |-> "Missing file",
                      file |-> file.name, reason |-> "none"]]
    ELSE [df |-> IF o = "DateParseError" THEN Concat(dfc, Frame(parsed))
                 ELSE dfc,
          raised |-> "none",
          line |-> [level |-> "ERROR", msg |-> "Corrupt or invalid file",
                    file |-> file.name, reason |-> o]]

\* Mutant: only FileNotFoundError is caught, any other exception leaves the
\* loop.
IngestFile_NoGenericExcept(dfc, file) ==
    LET o == Outcome(file) IN
    IF o = "ok"
      THEN [df |-> Concat(dfc, Frame(file)), raised |-> "none",
            line |-> [level |-> "INFO", msg |-> "Loaded", file |-> file.name,
                      reason |-> "none"]]
    ELSE IF o = "FileNotFoundError"
      THEN [df |-> dfc, raised |-> "none",
            line |-> [level |-> "ERROR", msg |-> "Missing file",
                      file |-> file.name, reason |-> "none"]]
    ELSE [df |-> dfc, raised |-> o,
          line |-> [level |-> "ERROR", msg |-> "Corrupt or invalid file",
                    file |-> file.name, reason |-> o]]

\* One iteration of the loop of line 18: the dataset after it, the line it
\* logs, and the exception that leaves the loop body ("none": the two except
\* clauses of lines 34-37 catch every Exception).
IngestFile(dfc, file) ==
    LET o == Outcome(file) IN
    IF o = "ok"
      THEN [df |-> Concat(dfc, Frame(file)), raised |-> "none",
            line |-> [level |-> "INFO", msg |-> "Loaded", file |-> file.name,
                      reason |-> "none"]]
    ELSE IF o = "FileNotFoundError"
      THEN [df |-> dfc, raised |-> "none",
            line |-> [level |-> "ERROR", msg |-> "Missing file",
                      file |-> file.name, reason |-> "none"]]
    ELSE [df |-> dfc, raised |-> "none",
          line |-> [level |-> "ERROR", msg |-> "Corrupt or invalid file",
                    file |-> file.name, reason |-> o]]

\* ----------------------------------------------------------- Task 1: merge
\* pd.DataFrame()
EmptyFrame == [columns |-> {}, index |-> "RangeIndex", rows |-> <<>>]

\* set_index("timestamp") raises KeyError on a frame without that column.
SetIndexError == "KeyError: None of ['timestamp'] are in the columns"
CanSetIndex(df) == "timestamp" \in df.columns

SetIndex(df) ==
    [columns |-> df.columns \ {"timestamp"}, index |-> "timestamp",
     rows |-> df.rows]

\* Index.is_monotonic_increasing
IsMonotonic(rows) ==
    \A i \in 1..(Len(rows) - 1) : rows[i].timestamp <= rows[i + 1].timestamp

\* The orders in which the positions S of rows can be laid out with
\* non-decreasing timestamps.
RECURSIVE SortedOrders(_, _)
SortedOrders(rows, S) ==
    IF S = {} THEN { <<>> }
    ELSE UNION { { <<i>> \o rest : rest \in SortedOrders(rows, S \ {i}) } :
                 i \in { j \in S : \A k \in S :
                           rows[j].timestamp <= rows[k].timestamp } }

\* Mutant: the index is set but the rows are never sorted.
SortIndex_Unsorted(df) == { df }

\* sort_index() with its default kind="quicksort": an index that is already
\* monotonic is left as it is; otherwise the rows are reordered by an argsort
\* that does not promise to keep the order of equal keys, so any ordering
\* with non-decreasing timestamps can come out.
SortIndex(df) ==
    IF IsMonotonic(df.rows) THEN { df }
    ELSE { [df EXCEPT !.rows = [i \in 1..Len(df.rows) |-> df.rows[o[i]]]] :
           o \in SortedOrders(df.rows, 1..Len(df.rows)) }

\* ----------------------------------------------------- Task 2: aggregation
Day(ts) == ts \div HoursPerDay
\* The Sunday that ends the week of ts (2024-01-01, day 0, is a Monday).
WeekEnd(ts) == (Day(ts) \div DaysPerWeek) * DaysPerWeek + (DaysPerWeek - 1)

RECURSIVE SumKwh(_, _)
\* The sum of the kwh of the rows at the positions S.
SumKwh(rows, S) ==
    IF S = {} THEN 0
    ELSE LET i == CHOOSE j \in S : TRUE
         IN  rows[i].kwh + SumKwh(rows, S \ {i})

Min(S) == CHOOSE x \in S : \A y \in S : x <= y
Max(S) == CHOOSE x \in S : \A y \in S : x >= y

\* Mutant: the bins stop one day short of the last day of the data.
calculate_daily_totals_DropsLastDay(df) ==
    LET days == { Day(df.rows[i].timestamp) : i \in 1..Len(df.rows) } IN
    IF days = {} THEN [d \in {} |-> 0]
    ELSE [d \in Min(days)..(Max(days) - 1) |->
            SumKwh(df.rows, { i \in 1..Len(df.rows) :
                                Day(df.rows[i].timestamp) = d })]

\* df["kwh"].resample("D").sum(): one bin per day from the first to the last
\* day of the data, empty days included with sum 0.
calculate_daily_totals(df) ==
    LET days == { Day(df.rows[i].timestamp) : i \in 1..Len(df.rows) } IN
    IF days = {} THEN [d \in {} |-> 0]
    ELSE [d \in Min(days)..Max(days) |->
            SumKwh(df.rows, { i \in 1..Len(df.rows) :
                                Day(df.rows[i].timestamp) = d })]

\* df["kwh"].resample("W").sum(): one bin per week (Monday to Sunday, labelled
\* by the Sunday) from the first to the last week of the data.
calculate_weekly_aggregates(df) ==
    LET ends == { WeekEnd(df.rows[i].timestamp) : i \in 1..Len(df.rows) } IN
    IF ends = {} THEN [d \in {} |-> 0]
    ELSE [d \in { e \in Min(ends)..Max(ends) :
                    e % DaysPerWeek = DaysPerWeek - 1 } |->
            SumKwh(df.rows, { i \in 1..Len(df.rows) :
                                WeekEnd(df.rows[i].timestamp) = d })]

\* The groups of groupby("building"): rows whose key is NaN are in no group.
GroupKeys(df) == { df.rows[i].building : i \in 1..Len(df.rows) } \ {NaN}

\* Mutant: the mean is taken over the rows of the whole dataset.
building_wise_summary_MeanOverAllRows(df) ==
    [b \in GroupKeys(df) |->
        LET g == { i \in 1..Len(df.rows) : df.rows[i].building = b }
            k == { df.rows[i].kwh : i \in g }
        IN  [mean |-> [num |-> SumKwh(df.rows, g), den |-> Len(df.rows)],
             min |-> Min(k), max |-> Max(k), sum |-> SumKwh(df.rows, g)]]

\* df.groupby("building")["kwh"].agg(["mean", "min", "max", "sum"]); the mean
\* is kept as the fraction num/den.
building_wise_summary(df) ==
    [b \in GroupKeys(df) |->
        LET g == { i \in 1..Len(df.rows) : df.rows[i].building = b }
            k == { df.rows[i].kwh : i \in g }
        IN  [mean |-> [num |-> SumKwh(df.rows, g), den |-> Cardinality(g)],
             min |-> Min(k), max |-> Max(k), sum |-> SumKwh(df.rows, g)]]

\* ------------------------------------------------------ Task 3: OOP model
\* Building.__init__
NewBuilding(name) == [name |-> name, meter_readings |-> <<>>]

\* Building.add_reading
add_reading(b, timestamp, kwh) ==
    [b EXCEPT !.meter_readings =
        Append(@, [timestamp |-> timestamp, kwh |-> kwh])]

RECURSIVE SumReadings(_)
\* sum(r.kwh for r in readings), from 0, in list order.
SumReadings(readings) ==
    IF readings = <<>> THEN 0
    ELSE SumReadings(SubSeq(readings, 1, Len(readings) - 1))
         + readings[Len(readings)].kwh

\* Mutant: the first reading is left out of the sum.
calculate_total_consumption_SkipsFirst(b) ==
    [value |-> IF b.meter_readings = <<>> THEN 0
               ELSE SumReadings(Tail(b.meter_readings)),
     self |-> b]

\* Building.calculate_total_consumption: the value returned and the object
\* after the call.
calculate_total_consumption(b) ==
    [value |-> SumReadings(b.meter_readings), self |-> b]

\* Building.generate_report
generate_report(b) ==
    [value |-> [building |-> b.name,
                total_consumption |-> calculate_total_consumption(b).value],
     self |-> calculate_total_consumption(b).self]

\* BuildingManager.__init__
NoBuildings == [b \in {} |-> NewBuilding(b)]

\* One iteration of the loop of add_readings_from_df.  A NaN building is a
\* dictionary key like any other (read_csv fills empty cells with the one
\* np.nan object), so the lookup of line 98 finds the entry of line 97.
AddRow(buildings, row) ==
    LET b == row.building
        known == IF b \in DOMAIN buildings THEN buildings
                 ELSE [k \in DOMAIN buildings \cup {b} |->
                         IF k = b THEN NewBuilding(b) ELSE buildings[k]]
    IN  [known EXCEPT ![b] = add_reading(@, row.timestamp, row.kwh)]

RECURSIVE add_readings_from_df(_, _)
\* BuildingManager.add_readings_from_df: df.iterrows() in row order.
add_readings_from_df(buildings, rows) ==
    IF rows = <<>> THEN buildings
    ELSE add_readings_from_df(AddRow(buildings, Head(rows)), Tail(rows))

\* ------------------------------------------------ Task 5: executive summary
\* Code point of a character, for the order of the group keys.
Ord(c) == CASE c = "A" -> 65 [] c = "B" -> 66 [] c = "_" -> 95 [] OTHER -> 0

RECURSIVE StrLess(_, _)
\* Python's s < t on text.
StrLess(s, t) ==
    IF t = <<>> THEN FALSE
    ELSE IF s = <<>> THEN TRUE
    ELSE IF Head(s) = Head(t) THEN StrLess(Tail(s), Tail(t))
    ELSE Ord(Head(s)) < Ord(Head(t))

RECURSIVE SumOfSums(_, _)
\* summary["sum"].sum() over the groups K.
SumOfSums(sm, K) ==
    IF K = {} THEN 0
    ELSE LET b == CHOOSE k \in K : TRUE IN sm[b].sum + SumOfSums(sm, K \ {b})

IdxMaxError == "ValueError: attempt to get argmax of an empty sequence"

\* summary["sum"].idxmax(): the first key, in the sorted order of the group
\* keys, whose sum is the largest.  Raises ValueError on an empty summary.
IdxMaxSum(sm) ==
    CHOOSE b \in DOMAIN sm :
        /\ \A k \in DOMAIN sm : sm[k].sum <= sm[b].sum
        /\ \A k \in DOMAIN sm : sm[k].sum = sm[b].sum /\ k # b => StrLess(b, k)

\* df_combined["kwh"].idxmax(): the index label of the first largest reading.
IdxMaxKwh(df) ==
    LET i == CHOOSE j \in 1..Len(df.rows) :
                /\ \A k \in 1..Len(df.rows) : df.rows[k].kwh <= df.rows[j].kwh
                /\ \A k \in 1..(j - 1) : df.rows[k].kwh < df.rows[j].kwh
    IN  df.rows[i].timestamp

ExecutiveSummary(sm, df) ==
    [total_campus_kwh |-> SumOfSums(sm, DOMAIN sm),
     highest_building |-> IdxMaxSum(sm),
     peak_time |-> IdxMaxKwh(df)]

\* ------------------------------------------------------------ the pipeline
Undefined == "undefined"
NoCall == [op |-> "none", value |-> 0]

InitPipeline ==
    /\ files = <<>>
    /\ df_combined = EmptyFrame
    /\ log = <<>>
    /\ pc = "ingest"
    /\ daily_totals = Undefined
    /\ weekly_totals = Undefined
    /\ summary = Undefined
    /\ manager = Undefined
    /\ report = Undefined
    /\ error = "none"

Init ==
    /\ InitPipeline
    /\ building = NewBuilding(<<"A">>)
    /\ added = EmptyBag
    /\ ret = NoCall

\* The names of the files the glob has yielded.
Seen == { files[i].name : i \in 1..Len(files) }

\* Lines 18-37: the glob yields one more file of the directory (a name it has
\* not yielded yet) and the loop body runs on it.
Ingest ==
    /\ pc = "ingest"
    /\ \E file \in Files :
         /\ file.name \notin Seen
         /\ files' = Append(files, file)
         /\ LET r == IngestFile(df_combined, file) IN
              IF r.raised = "none"
                THEN /\ df_combined' = r.df
                     /\ log' = Append(log, r.line)
                     /\ UNCHANGED <<pc, error>>
                ELSE /\ pc' = "crashed"
                     /\ error' = r.raised
                     /\ UNCHANGED <<df_combined, log>>
    /\ UNCHANGED <<daily_totals, weekly_totals, summary, manager, report>>
    /\ UNCHANGED objVars

\* The glob is exhausted: the loop ends.
EndOfFiles ==
    /\ pc = "ingest"
    /\ pc' = "merge"
    /\ UNCHANGED <<files, df_combined, log, daily_totals, weekly_totals,
                   summary, manager, report, error>>
    /\ UNCHANGED objVars

\* Lines 40-44: set_index, sort_index, to_csv.
Merge ==
    /\ pc = "merge"
    /\ IF CanSetIndex(df_combined)
         THEN /\ df_combined' \in SortIndex(SetIndex(df_combined))
              /\ pc' = "aggregate"
              /\ error' = error
         ELSE /\ df_combined' = df_combined
              /\ pc' = "crashed"
              /\ error' = SetIndexError
    /\ UNCHANGED <<files, log, daily_totals, weekly_totals, summary, manager,
                   report>>
    /\ UNCHANGED objVars

\* Lines 59-62.
Aggregate ==
    /\ pc = "aggregate"
    /\ daily_totals' = calculate_daily_totals(df_combined)
    /\ weekly_totals' = calculate_weekly_aggregates(df_combined)
    /\ summary' = building_wise_summary(df_combined)
    /\ pc' = "registry"
    /\ UNCHANGED <<files, df_combined, log, manager, report, error>>
    /\ UNCHANGED objVars

\* Lines 100-101.
Registry ==
    /\ pc = "registry"
    /\ manager' = add_readings_from_df(NoBuildings, df_combined.rows)
    /\ pc' = "report"
    /\ UNCHANGED <<files, df_combined, log, daily_totals, weekly_totals,
                   summary, report, error>>
    /\ UNCHANGED objVars

\* Lines 130-147: idxmax raises ValueError when there is nothing to rank.
Report ==
    /\ pc = "report"
    /\ IF DOMAIN summary = {}
         THEN /\ pc' = "crashed"
              /\ error' = IdxMaxError
              /\ report' = report
         ELSE /\ report' = ExecutiveSummary(summary, df_combined)
              /\ pc' = "done"
              /\ error' = error
    /\ UNCHANGED <<files, df_combined, log, daily_totals, weekly_totals,
                   summary, manager>>
    /\ UNCHANGED objVars

Next == Ingest \/ EndOfFiles \/ Merge \/ Aggregate \/ Registry \/ Report

Spec == Init /\ [][Next]_vars

\* ----------------------------------------------- a Building used on its own
BuildingNames == { <<"A">>, <<"B">> }
ReadingTimes == { 0, 12 }
ReadingKwh == { 1, 2 }

InitBuilding ==
    /\ InitPipeline
    /\ building \in { NewBuilding(n) : n \in BuildingNames }
    /\ added = EmptyBag
    /\ ret = NoCall

AddReading ==
    /\ Len(building.meter_readings) < MaxReadings
    /\ \E t \in ReadingTimes, k \in ReadingKwh :
         /\ building' = add_reading(building, t, k)
         /\ added' = added (+) SetToBag({[timestamp |-> t, kwh |-> k]})
    /\ ret' = NoCall
    /\ UNCHANGED pipeVars

CalculateTotal ==
    /\ ret' = [op |-> "calculate_total_consumption",
               value |-> calculate_total_consumption(building).value]
    /\ building' = calculate_total_consumption(building).self
    /\ UNCHANGED added
    /\ UNCHANGED pipeVars

GenerateReport ==
    /\ ret' = [op |-> "generate_report",
               value |-> generate_report(building).value]
    /\ building' = generate_report(building).self
    /\ UNCHANGED added
    /\ UNCHANGED pipeVars

NextBuilding == AddReading \/ CalculateTotal \/ GenerateReport

SpecBuilding == InitBuilding /\ [][NextBuilding]_vars

\* ============================================================== properties
\* What the claims speak of, stated from the inputs.

\* A file is ingested when it can be opened, has a "timestamp" column and
\* every timestamp of it is a date.
Succeeds(f) ==
    /\ f.readable
    /\ "timestamp" \in f.columns
    /\ \A i \in 1..Len(f.rows) : Parseable(f.rows[i].timestamp)

\* The part of the base name of a file before its first underscore.
FilePrefix(name) ==
    LET base == SubSeq(name, 1, Len(name) - 1)
        us == { k \in 1..Len(base) : base[k] = "_" }
    IN  IF us = {} THEN base ELSE SubSeq(base, 1, Min(us) - 1)

\* The rows an ingested file is to contribute.
ExpectedRows(f) ==
    [i \in 1..Len(f.rows) |->
        [timestamp |-> ToDatetime(f.rows[i].timestamp),
         kwh |-> f.rows[i].kwh,
         building |-> IF "building" \in f.columns THEN f.rows[i].building
                      ELSE FilePrefix(f.name)]]

RECURSIVE ExpectedConcat(_)
\* The rows of the ingested files, files in discovery order, rows in file order.
ExpectedConcat(fs) ==
    IF fs = <<>> THEN <<>>
    ELSE ExpectedConcat(SubSeq(fs, 1, Len(fs) - 1))
         \o (IF Succeeds(fs[Len(fs)]) THEN ExpectedRows(fs[Len(fs)]) ELSE <<>>)

RECURSIVE SeqToBag(_)
SeqToBag(sq) ==
    IF sq = <<>> THEN EmptyBag ELSE SetToBag({Head(sq)}) (+) SeqToBag(Tail(sq))

\* The readings of rows without their building tag.
Readings(rows) ==
    [i \in 1..Len(rows) |-> <<rows[i].timestamp, rows[i].kwh>>]

Merged == pc \in {"aggregate", "registry", "report", "done"}
              \/ (pc = "crashed" /\ error = IdxMaxError)
Aggregated == pc \in {"registry", "report", "done"}
              \/ (pc = "crashed" /\ error = IdxMaxError)
Registered == pc \in {"report", "done"}
              \/ (pc = "crashed" /\ error = IdxMaxError)

\* C1: at every point of the run the dataset holds exactly the readings of the
\* files ingested so far: every row of each ingested file, and no row of a
\* file that failed (unreadable, no "timestamp" column, unparseable timestamp).
C1_ExactlyIngestedRows ==
    SeqToBag(Readings(df_combined.rows))
        = SeqToBag(Readings(ExpectedConcat(files)))

\* C1 witness: merged, with a failed file that had a well-formed row before its
\* unparseable one, and an ingested file whose rows are in the dataset.
C1_Witness ==
    /\ Merged
    /\ \E i, j \in 1..Len(files) :
         /\ files[i].readable /\ "timestamp" \in files[i].columns
         /\ Len(files[i].rows) = 2
         /\ Parseable(files[i].rows[1].timestamp)
         /\ ~Parseable(files[i].rows[2].timestamp)
         /\ Succeeds(files[j]) /\ Len(files[j].rows) = 2
    /\ Len(df_combined.rows) = 2

\* C2: when the loop is left every discovered file has exactly one log line,
\* in discovery order, INFO "Loaded" for an ingested file and ERROR with the
\* reason for a failed one; the loop is never left by an exception, so a run
\* that stops early stops at the merge step or after it.
C2_OneLogLinePerFile ==
    /\ Len(log) = Len(files)
    /\ \A i \in 1..Len(log) :
         /\ log[i].file = files[i].name
         /\ Succeeds(files[i]) => log[i].level = "INFO" /\ log[i].msg = "Loaded"
         /\ ~Succeeds(files[i]) =>
              /\ log[i].level = "ERROR"
              /\ \/ log[i].msg = "Missing file" /\ ~files[i].readable
                 \/ /\ log[i].msg = "Corrupt or invalid file"
                    /\ files[i].readable
                    /\ log[i].reason \in {"ValueError: Timestamp missing in file!",
                                          "DateParseError"}
    /\ pc = "crashed" => error \in {SetIndexError, IdxMaxError}
    /\ pc = "ingest" => ENABLED EndOfFiles

\* C2 witness: the merge step is reached after a failed file followed by an
\* ingested one.
C2_Witness ==
    /\ pc = "merge"
    /\ Len(files) = 2
    /\ ~Succeeds(files[1]) /\ Succeeds(files[2])
    /\ log[1].level = "ERROR" /\ log[2].level = "INFO"

\* C3: the rows of the dataset are the rows of the ingested files, each tagged
\* with the text of its file's base name before the first underscore when the
\* file has no "building" column, and with its own building cell otherwise.
C3_BuildingResolution ==
    SeqToBag(df_combined.rows) = SeqToBag(ExpectedConcat(files))

\* C3 witness: merged from a file without a "building" column whose name has
\* an underscore, and a file with the column whose cell differs from what its
\* name would give.
C3_Witness ==
    /\ Merged
    /\ \E i, j \in 1..Len(files) :
         /\ Succeeds(files[i]) /\ "building" \notin files[i].columns
         /\ files[i].rows # <<>>
         /\ \E k \in 1..Len(files[i].name) : files[i].name[k] = "_"
         /\ Succeeds(files[j]) /\ "building" \in files[j].columns
         /\ \E k \in 1..Len(files[j].rows) :
              files[j].rows[k].building = <<"A">>
              /\ FilePrefix(files[j].name) = <<"B">>
    /\ \E k \in 1..Len(df_combined.rows) : df_combined.rows[k].building = <<"A">>

\* Where r goes in a sorted sequence so that it follows every row whose
\* timestamp is not later than its own.
InsertStable(sorted, r) ==
    LET k == Cardinality({ i \in 1..Len(sorted) :
                             sorted[i].timestamp <= r.timestamp })
    IN  SubSeq(sorted, 1, k) \o <<r>> \o SubSeq(sorted, k + 1, Len(sorted))

RECURSIVE StableSort(_)
\* rows in ascending timestamp order, equal timestamps in their order in rows.
StableSort(rows) ==
    IF rows = <<>> THEN <<>>
    ELSE InsertStable(StableSort(SubSeq(rows, 1, Len(rows) - 1)),
                      rows[Len(rows)])

MergeStep == pc = "merge" /\ pc' = "aggregate"

\* C4 as claimed: the merge step leaves the rows of the concatenation in
\* ascending timestamp order, rows with equal timestamps in the order they had
\* in the concatenation.
C4_StableSort ==
    [][MergeStep => df_combined'.rows = StableSort(df_combined.rows)]_vars

\* C4 as amended: the merge step leaves the same rows as the concatenation,
\* indexed by timestamp and in ascending timestamp order (the order of rows
\* with equal timestamps is not fixed).
C4_SortedSameRows ==
    [][MergeStep =>
         /\ IsMonotonic(df_combined'.rows)
         /\ SeqToBag(df_combined'.rows) = SeqToBag(df_combined.rows)
         /\ df_combined'.index = "timestamp"]_vars

\* C4 witness: the step after a merge of a concatenation that was not in
\* timestamp order, in which two different rows with equal timestamps have
\* changed places.
C4_Witness ==
    /\ pc = "aggregate"
    /\ ~IsMonotonic(ExpectedConcat(files))
    /\ IsMonotonic(df_combined.rows)
    /\ Len(df_combined.rows) = Len(ExpectedConcat(files))
    /\ df_combined.rows # StableSort(ExpectedConcat(files))

RECURSIVE FnSum(_, _)
\* The sum of the values of f over the part K of its domain.
FnSum(f, K) ==
    IF K = {} THEN 0
    ELSE LET k == CHOOSE x \in K : TRUE IN f[k] + FnSum(f, K \ {k})

RECURSIVE SeqSum(_)
SeqSum(sq) == IF sq = <<>> THEN 0 ELSE Head(sq) + SeqSum(Tail(sq))

RECURSIVE KwhOfBuilding(_, _)
\* The kwh of the rows of building b, in row order.
KwhOfBuilding(rows, b) ==
    IF rows = <<>> THEN <<>>
    ELSE (IF Head(rows).building = b THEN <<Head(rows).kwh>> ELSE <<>>)
         \o KwhOfBuilding(Tail(rows), b)

AllKwh(rows) == [i \in 1..Len(rows) |-> rows[i].kwh]

\* The input files are valid: every row of the dataset has a building.
EveryRowTagged == \A i \in 1..Len(df_combined.rows) :
                     df_combined.rows[i].building # NaN

NoneIngested == \A i \in 1..Len(files) : ~Succeeds(files[i])

\* C6 as claimed: when no file is ingested the run does not crash, the merged
\* dataset is empty and the executive summary states a total of zero.
C6_EmptyRunCompletes ==
    pc # "ingest" /\ NoneIngested =>
        /\ pc # "crashed"
        /\ df_combined.rows = <<>>
        /\ pc = "done" => report.total_campus_kwh = 0

Identifiers == { df_combined.rows[i].building :
                   i \in 1..Len(df_combined.rows) } \ {NaN}

\* C7: building_summary has one entry per building identifier of the dataset,
\* with the sum, min, max and mean of that building's kwh; the reported total
\* is the sum of the per-building sums and the reported highest building has
\* a largest sum.
C7_BuildingSummary ==
    /\ Aggregated =>
         /\ DOMAIN summary = Identifiers
         /\ \A b \in DOMAIN summary :
              LET k == KwhOfBuilding(df_combined.rows, b) IN
              /\ summary[b].sum = SeqSum(k)
              /\ \E i \in 1..Len(k) : summary[b].min = k[i]
              /\ \A i \in 1..Len(k) : summary[b].min <= k[i]
              /\ \E i \in 1..Len(k) : summary[b].max = k[i]
              /\ \A i \in 1..Len(k) : summary[b].max >= k[i]
              /\ summary[b].mean.den > 0
              /\ summary[b].mean.num * Len(k) = SeqSum(k) * summary[b].mean.den
    /\ pc = "done" =>
         /\ report.total_campus_kwh
              = FnSum([b \in Identifiers |->
                         SeqSum(KwhOfBuilding(df_combined.rows, b))],
                      Identifiers)
         /\ report.highest_building \in DOMAIN summary
         /\ \A b \in DOMAIN summary :
              summary[b].sum <= summary[report.highest_building].sum

\* C7 witness: building A with readings 1 and 2, building B with one reading
\* of 2: A has sum 3, mean 3/2, min 1, max 2; the total is 5, the highest A.
C7_Witness ==
    /\ pc = "done"
    /\ DOMAIN summary = { <<"A">>, <<"B">> }
    /\ summary[<<"A">>] = [mean |-> [num |-> 3, den |-> 2], min |-> 1,
                            max |-> 2, sum |-> 3]
    /\ summary[<<"B">>] = [mean |-> [num |-> 2, den |-> 1], min |-> 2,
                            max |-> 2, sum |-> 2]
    /\ report.total_campus_kwh = 5
    /\ report.highest_building = <<"A">>

RECURSIVE BagKwh(_, _)
\* The sum of the kwh of the readings of the bag B, over its elements S.
BagKwh(B, S) ==
    IF S = {} THEN 0
    ELSE LET e == CHOOSE x \in S : TRUE
         IN  e.kwh * CopiesIn(e, B) + BagKwh(B, S \ {e})

\* C8: a Building holds exactly the readings added to it; the total returned
\* is the sum of their kwh whatever the order they were added in, the report
\* returned is the name with that total, and neither call changes the readings.
C8_BuildingTotal ==
    /\ SeqToBag(building.meter_readings) = added
    /\ building.name \in BuildingNames
    /\ ret.op = "calculate_total_consumption" =>
         ret.value = BagKwh(added, BagToSet(added))
    /\ ret.op = "generate_report" =>
         ret.value = [building |-> building.name,
                      total_consumption |-> BagKwh(added, BagToSet(added))]

\* C8 witness: a report after three readings added in descending kwh order.
C8_Witness ==
    /\ ret.op = "generate_report"
    /\ Len(building.meter_readings) = 3
    /\ building.meter_readings[1].kwh = 2
    /\ building.meter_readings[3].kwh = 1
    /\ ret.value.total_consumption = 5

\* C9 as claimed: the registry has one Building per building identifier of
\* the dataset, each holding the readings of the rows of its name, in row
\* order, so as many readings as rows; and every row has a building identifier.
C9_RegistryPerIdentifier ==
    Registered =>
        /\ DOMAIN manager = { df_combined.rows[i].building :
                                i \in 1..Len(df_combined.rows) }
        /\ \A b \in DOMAIN manager :
             /\ manager[b].name = b
             /\ [i \in 1..Len(manager[b].meter_readings) |->
                   manager[b].meter_readings[i].kwh]
                  = KwhOfBuilding(df_combined.rows, b)
        /\ FnSum([b \in DOMAIN manager |-> Len(manager[b].meter_readings)],
                 DOMAIN manager) = Len(df_combined.rows)
        /\ \A i \in 1..Len(df_combined.rows) :
             df_combined.rows[i].building # NaN

\* C10 as claimed: the registry and building_summary have the same buildings,
\* and each Building's total is that building's "sum".
C10_RegistryAgreesWithSummary ==
    Registered =>
        /\ DOMAIN manager = DOMAIN summary
        /\ \A b \in DOMAIN manager :
             calculate_total_consumption(manager[b]).value = summary[b].sum

====
